---- MODULE Spec2Model ----
(***************************************************************************)
(* Session state machine of the vending machine (src/lib/vendingState.ts,  *)
(* first module of the file) together with the deferred callbacks that     *)
(* dispense() schedules, the wall clock the manager reads, the payment      *)
(* webhook and polling fallback that settle an attached payment, and the   *)
(* chat relay's dispense tool with the inventory it decrements.            *)
(*                                                                         *)
(* Time is in milliseconds, as in the source.  Session ids are modelled as *)
(* increasing naturals: generateSessionId() returns a token that was never *)
(* returned before.  Callers present ids that were issued at some point,   *)
(* or the never-issued id 0.                                               *)
(***************************************************************************)
EXTENDS Integers, Sequences, FiniteSets, TLC

\* ---------------------------------------------------------------- bounds
MaxTime == 90000
MaxSessions == 2
MaxStock == 1

\* ------------------------------------------------------ program constants
CHAT_TTL_MS == 60000
PAYMENT_TTL_MS == 60000
DONE_DELAY_MS == 1000
IDLE_DELAY_MS == 2000

\* `null` of a number-typed field and of a string-typed field
Null == -1
NullStr == "null"

\* the clock is observed every half chat window, and whenever a deferred
\* callback falls due
TickMs == CHAT_TTL_MS \div 2

\* the slots of the machine, and the slot argument of a call without one
Slots == 0 .. 9
NoSlot == Null

Names == {"Ana", "Bob"}
Orders == {"o1", "o2"}
States == {"IDLE", "CHATTING", "PAYMENT_PENDING", "DISPENSING", "DONE"}

VARIABLES
  store,                \* the module-level store record
  pausedTimeRemaining,  \* module-level saved remaining chat time
  timers,               \* pending setTimeout callbacks, in creation order; each
                        \* remembers (for the record only) the session that
                        \* was current when dispense() scheduled it
  now,                  \* Date.now()
  lastOp,               \* the operation that last wrote the store
  retired,              \* ids whose occupancy ended or that were replaced
  quiet,                \* TRUE once clients stopped calling (polls only)
  ran,                  \* ms the current occupancy has spent CHATTING with a
                        \* running chat deadline that had not yet passed
  used,                 \* payment orders created so far (order ids are unique)
  processed,            \* orders that the webhook settled on a notification
                        \* about them (either topic: on the order a notification
                        \* is about, both topics have the same effect)
  inventory             \* data/inventory.json: the amount left in each slot

vars == <<store, pausedTimeRemaining, timers, now, lastOp, retired, quiet,
          ran, used, processed, inventory>>

\* ------------------------------------------------------------ the store
NoPayment ==
  [preferenceId |-> NullStr, qrCodeUrl |-> NullStr, qrCodeDataUrl |-> NullStr,
   amount |-> Null, description |-> NullStr, createdAt |-> Null,
   paymentExpiresAt |-> Null]

generateSessionId(s) == s.sessionId + 1

touch(s, t) == [s EXCEPT !.updatedAt = t]

resetToIdle(s, t) ==
  [state |-> "IDLE", sessionId |-> generateSessionId(s), lockedByName |-> NullStr,
   updatedAt |-> t, chatExpiresAt |-> Null, paymentInfo |-> NoPayment]

\* expiry that fires only strictly after the deadline
expireIfNeededStrict(s, t) ==
  IF s.state = "CHATTING" /\ s.chatExpiresAt # Null /\ t > s.chatExpiresAt
    THEN resetToIdle(s, t)
  ELSE IF s.state = "PAYMENT_PENDING" /\ s.paymentInfo.paymentExpiresAt # Null
          /\ t > s.paymentInfo.paymentExpiresAt
    THEN resetToIdle(s, t)
  ELSE IF s.state = "CHATTING" /\ s.paymentInfo.paymentExpiresAt # Null
          /\ t > s.paymentInfo.paymentExpiresAt
    THEN resetToIdle(s, t)
  ELSE s

\* expiry without the payment check of a CHATTING session
expireIfNeededNoChatPayment(s, t) ==
  IF s.state = "CHATTING" /\ s.chatExpiresAt # Null /\ t >= s.chatExpiresAt
    THEN resetToIdle(s, t)
  ELSE IF s.state = "PAYMENT_PENDING" /\ s.paymentInfo.paymentExpiresAt # Null
          /\ t >= s.paymentInfo.paymentExpiresAt
    THEN resetToIdle(s, t)
  ELSE s

expireIfNeeded(s, t) ==
  IF s.state = "CHATTING" /\ s.chatExpiresAt # Null /\ t >= s.chatExpiresAt
    THEN resetToIdle(s, t)
  ELSE IF s.state = "PAYMENT_PENDING" /\ s.paymentInfo.paymentExpiresAt # Null
          /\ t >= s.paymentInfo.paymentExpiresAt
    THEN resetToIdle(s, t)
  ELSE IF s.state = "CHATTING" /\ s.paymentInfo.paymentExpiresAt # Null
          /\ t >= s.paymentInfo.paymentExpiresAt
    THEN resetToIdle(s, t)
  ELSE s

\* ------------------------------------------------------------ operations
\* Each exported function is a function of the store (and, where it reads
\* it, of the saved remaining time) and the clock; it yields the new store
\* and the value returned to the caller.
Res(s, ok, msg) == [store |-> s, ok |-> ok, message |-> msg]
ResP(s, p, ok, msg) == [store |-> s, paused |-> p, ok |-> ok, message |-> msg]

getSnapshot(s, t) == expireIfNeeded(s, t)

\* claim without the busy check
claimIgnoresBusy(s, sessionId, userName, t) ==
  LET e == expireIfNeeded(s, t) IN
    IF sessionId # e.sessionId THEN Res(e, FALSE, "InvalidSession")
    ELSE Res([e EXCEPT !.state = "CHATTING", !.lockedByName = userName,
                       !.chatExpiresAt = t + CHAT_TTL_MS, !.updatedAt = t],
             TRUE, "")

\* claim that checks the id before the state
claimChecksIdFirst(s, sessionId, userName, t) ==
  LET e == expireIfNeeded(s, t) IN
    IF sessionId # e.sessionId THEN Res(e, FALSE, "InvalidSession")
    ELSE IF e.state # "IDLE" THEN Res(e, FALSE, "Busy")
    ELSE Res([e EXCEPT !.state = "CHATTING", !.lockedByName = userName,
                       !.chatExpiresAt = t + CHAT_TTL_MS, !.updatedAt = t],
             TRUE, "")

claim(s, sessionId, userName, t) ==
  LET e == expireIfNeeded(s, t) IN
    IF e.state # "IDLE" THEN Res(e, FALSE, "Busy")
    ELSE IF sessionId # e.sessionId THEN Res(e, FALSE, "InvalidSession")
    ELSE Res([e EXCEPT !.state = "CHATTING", !.lockedByName = userName,
                       !.chatExpiresAt = t + CHAT_TTL_MS, !.updatedAt = t],
             TRUE, "")

\* cancel that frees the machine under the same id
cancelKeepsId(s, sessionId, t) ==
  LET e == expireIfNeeded(s, t) IN
    IF sessionId # e.sessionId THEN Res(e, FALSE, "WrongSession")
    ELSE IF e.state = "IDLE" THEN Res(e, TRUE, "")
    ELSE Res([e EXCEPT !.state = "IDLE", !.lockedByName = NullStr,
                       !.chatExpiresAt = Null, !.updatedAt = t],
             TRUE, "")

cancel(s, sessionId, t) ==
  LET e == expireIfNeeded(s, t) IN
    IF sessionId # e.sessionId THEN Res(e, FALSE, "WrongSession")
    ELSE IF e.state = "IDLE" THEN Res(e, TRUE, "")
    ELSE Res([e EXCEPT !.state = "IDLE", !.lockedByName = NullStr,
                       !.sessionId = generateSessionId(e),
                       !.chatExpiresAt = Null, !.updatedAt = t],
             TRUE, "")

\* dispense without the state guard
dispenseAnyState(s, sessionId, t) ==
  LET e == expireIfNeeded(s, t) IN
    IF sessionId # e.sessionId THEN Res(e, FALSE, "WrongSession")
    ELSE Res([e EXCEPT !.state = "DISPENSING", !.updatedAt = t], TRUE, "")

\* ok also means: the DISPENSING -> DONE callback was scheduled
dispense(s, sessionId, t) ==
  LET e == expireIfNeeded(s, t) IN
    IF sessionId # e.sessionId THEN Res(e, FALSE, "WrongSession")
    ELSE IF e.state # "CHATTING" THEN Res(e, FALSE, "InvalidState")
    ELSE Res([e EXCEPT !.state = "DISPENSING", !.updatedAt = t], TRUE, "")

\* markDone without the state guard
markDoneAnyState(s, sessionId, t) ==
  LET e == expireIfNeeded(s, t) IN
    IF sessionId # e.sessionId THEN Res(e, FALSE, "WrongSession")
    ELSE Res([e EXCEPT !.state = "DONE", !.updatedAt = t], TRUE, "")

\* markDone that hands the machine back to the chat
markDoneReopensChat(s, sessionId, t) ==
  LET e == expireIfNeeded(s, t) IN
    IF sessionId # e.sessionId THEN Res(e, FALSE, "WrongSession")
    ELSE IF e.state # "DISPENSING" THEN Res(e, FALSE, "InvalidState")
    ELSE Res([e EXCEPT !.state = "CHATTING", !.updatedAt = t], TRUE, "")

markDone(s, sessionId, t) ==
  LET e == expireIfNeeded(s, t) IN
    IF sessionId # e.sessionId THEN Res(e, FALSE, "WrongSession")
    ELSE IF e.state # "DISPENSING" THEN Res(e, FALSE, "InvalidState")
    ELSE Res([e EXCEPT !.state = "DONE", !.updatedAt = t], TRUE, "")

\* canSendChat that does not evaluate expiry
canSendChatNoExpiry(s, sessionId, t) ==
  IF sessionId # s.sessionId THEN Res(s, FALSE, "WrongSession")
  ELSE IF s.state # "CHATTING" THEN Res(s, FALSE, "InvalidState")
  ELSE Res(s, TRUE, "")

canSendChat(s, sessionId, t) ==
  LET e == expireIfNeeded(s, t) IN
    IF sessionId # e.sessionId THEN Res(e, FALSE, "WrongSession")
    ELSE IF e.state # "CHATTING" THEN Res(e, FALSE, "InvalidState")
    ELSE Res(e, TRUE, "")

\* pause that captures the remaining time before it checks the state
pauseChatTimerCapturesFirst(s, p, sessionId, t) ==
  IF sessionId # s.sessionId THEN ResP(s, p, FALSE, "WrongSession")
  ELSE IF s.chatExpiresAt # Null
    THEN ResP([s EXCEPT !.chatExpiresAt = Null],
              IF s.chatExpiresAt - t > 0 THEN s.chatExpiresAt - t ELSE 0,
              s.state = "CHATTING",
              IF s.state = "CHATTING" THEN "" ELSE "InvalidState")
  ELSE ResP(s, p, s.state = "CHATTING",
            IF s.state = "CHATTING" THEN "" ELSE "InvalidState")

\* pause that recomputes the saved time on every call (null - now is -now)
pauseChatTimerRecaptures(s, p, sessionId, t) ==
  IF sessionId # s.sessionId THEN ResP(s, p, FALSE, "WrongSession")
  ELSE IF s.state # "CHATTING" THEN ResP(s, p, FALSE, "InvalidState")
  ELSE ResP([s EXCEPT !.chatExpiresAt = Null],
            IF s.chatExpiresAt # Null /\ s.chatExpiresAt - t > 0
              THEN s.chatExpiresAt - t ELSE 0,
            TRUE, "")

pauseChatTimer(s, p, sessionId, t) ==
  IF sessionId # s.sessionId THEN ResP(s, p, FALSE, "WrongSession")
  ELSE IF s.state # "CHATTING" THEN ResP(s, p, FALSE, "InvalidState")
  ELSE IF s.chatExpiresAt # Null
    THEN ResP([s EXCEPT !.chatExpiresAt = Null],
              IF s.chatExpiresAt - t > 0 THEN s.chatExpiresAt - t ELSE 0,
              TRUE, "")
  ELSE ResP(s, p, TRUE, "")

resumeChatTimer(s, p, sessionId, t) ==
  IF sessionId # s.sessionId THEN ResP(s, p, FALSE, "WrongSession")
  ELSE IF s.state # "CHATTING" THEN ResP(s, p, FALSE, "InvalidState")
  ELSE IF p # Null
    THEN ResP([s EXCEPT !.chatExpiresAt = t + p], Null, TRUE, "")
  ELSE ResP(s, p, TRUE, "")

\* setPaymentInfo that keeps a deadline the caller supplied
setPaymentInfoKeepsSupplied(s, sessionId, paymentInfo, t) ==
  IF sessionId # s.sessionId THEN Res(s, FALSE, "WrongSession")
  ELSE IF s.state # "CHATTING" THEN Res(s, FALSE, "InvalidState")
  ELSE Res([s EXCEPT !.paymentInfo = [paymentInfo EXCEPT
                                        !.createdAt = t,
                                        !.paymentExpiresAt =
                                          IF paymentInfo.paymentExpiresAt # Null
                                            THEN paymentInfo.paymentExpiresAt
                                            ELSE t + PAYMENT_TTL_MS],
                     !.updatedAt = t],
           TRUE, "")

\* setPaymentInfo without the identity guard
setPaymentInfoAnySession(s, sessionId, paymentInfo, t) ==
  IF s.state # "CHATTING" THEN Res(s, FALSE, "InvalidState")
  ELSE Res([s EXCEPT !.paymentInfo = [paymentInfo EXCEPT
                                        !.createdAt = t,
                                        !.paymentExpiresAt = t + PAYMENT_TTL_MS],
                     !.updatedAt = t],
           TRUE, "")

\* setPaymentInfo that moves the session to PAYMENT_PENDING
setPaymentInfoSetsPending(s, sessionId, paymentInfo, t) ==
  IF sessionId # s.sessionId THEN Res(s, FALSE, "WrongSession")
  ELSE IF s.state # "CHATTING" THEN Res(s, FALSE, "InvalidState")
  ELSE Res([s EXCEPT !.state = "PAYMENT_PENDING",
                     !.paymentInfo = [paymentInfo EXCEPT
                                        !.createdAt = t,
                                        !.paymentExpiresAt = t + PAYMENT_TTL_MS],
                     !.updatedAt = t],
           TRUE, "")

setPaymentInfo(s, sessionId, paymentInfo, t) ==
  IF sessionId # s.sessionId THEN Res(s, FALSE, "WrongSession")
  ELSE IF s.state # "CHATTING" THEN Res(s, FALSE, "InvalidState")
  ELSE Res([s EXCEPT !.paymentInfo = [paymentInfo EXCEPT
                                        !.createdAt = t,
                                        !.paymentExpiresAt = t + PAYMENT_TTL_MS],
                     !.updatedAt = t],
           TRUE, "")

\* clearPaymentInfo that also drops the chat deadline
clearPaymentInfoDropsDeadline(s, sessionId, t) ==
  IF sessionId # s.sessionId THEN Res(s, FALSE, "WrongSession")
  ELSE Res([s EXCEPT !.paymentInfo = NoPayment, !.chatExpiresAt = Null,
                     !.updatedAt = t], TRUE, "")

\* clearPaymentInfo without the identity guard
clearPaymentInfoAnySession(s, sessionId, t) ==
  Res([s EXCEPT !.paymentInfo = NoPayment, !.updatedAt = t], TRUE, "")

clearPaymentInfo(s, sessionId, t) ==
  IF sessionId # s.sessionId THEN Res(s, FALSE, "WrongSession")
  ELSE Res([s EXCEPT !.paymentInfo = NoPayment, !.updatedAt = t], TRUE, "")

getPaymentInfo(s, sessionId) ==
  IF sessionId # s.sessionId THEN Res(s, FALSE, "WrongSession")
  ELSE Res(s, TRUE, "")

transitionToChatting(s, p, sessionId, t) ==
  IF sessionId # s.sessionId THEN ResP(s, p, FALSE, "WrongSession")
  ELSE IF s.state # "PAYMENT_PENDING" THEN ResP(s, p, FALSE, "InvalidState")
  ELSE LET r == resumeChatTimer([s EXCEPT !.state = "CHATTING"], p, sessionId, t)
       IN ResP(touch(r.store, t), r.paused, TRUE, "")

\* resume after payment that forgets to resume the timer
resumeChatTimerAfterPaymentNoResume(s, p, sessionId, t) ==
  IF sessionId # s.sessionId THEN ResP(s, p, FALSE, "WrongSession")
  ELSE IF s.state # "CHATTING" THEN ResP(s, p, FALSE, "InvalidState")
  ELSE ResP(s, p, TRUE, "")

resumeChatTimerAfterPayment(s, p, sessionId, t) ==
  IF sessionId # s.sessionId THEN ResP(s, p, FALSE, "WrongSession")
  ELSE IF s.state # "CHATTING" THEN ResP(s, p, FALSE, "InvalidState")
  ELSE LET r == resumeChatTimer(s, p, sessionId, t)
       IN ResP(r.store, r.paused, TRUE, "")

\* the webhook receiver on a terminal order event (paid, cancelled, expired)
\* for order orderId
webhookOrder(s, p, orderId, t) ==
  LET snapshot == getSnapshot(s, t) IN
    IF snapshot.state = "CHATTING" /\ snapshot.paymentInfo.preferenceId = orderId
      THEN resumeChatTimerAfterPayment(
             clearPaymentInfo(snapshot, snapshot.sessionId, t).store,
             p, snapshot.sessionId, t)
    ELSE IF snapshot.state = "PAYMENT_PENDING"
      THEN transitionToChatting(
             clearPaymentInfo(snapshot, snapshot.sessionId, t).store,
             p, snapshot.sessionId, t)
    ELSE ResP(snapshot, p, TRUE, "")

\* the webhook receiver on a terminal payment event (approved, rejected,
\* cancelled): it does not look at which order the payment belongs to
webhookPayment(s, p, t) ==
  LET snapshot == getSnapshot(s, t) IN
    IF snapshot.state = "CHATTING" /\ snapshot.paymentInfo.preferenceId # NullStr
      THEN resumeChatTimerAfterPayment(
             clearPaymentInfo(snapshot, snapshot.sessionId, t).store,
             p, snapshot.sessionId, t)
    ELSE IF snapshot.state = "PAYMENT_PENDING"
      THEN transitionToChatting(
             clearPaymentInfo(snapshot, snapshot.sessionId, t).store,
             p, snapshot.sessionId, t)
    ELSE ResP(snapshot, p, TRUE, "")

\* a settlement notification: its topic and the order it is about
webhook(s, p, n, t) ==
  IF n.topic = "order" THEN webhookOrder(s, p, n.order, t)
  ELSE webhookPayment(s, p, t)

\* one round of the payment route's polling fallback that sees a terminal
\* order status, for the session that started the payment
pollOrderStatus(s, p, sessionId, t) ==
  LET snapshot == getSnapshot(s, t) IN
    IF snapshot.sessionId = sessionId /\ snapshot.state = "PAYMENT_PENDING"
      THEN transitionToChatting(clearPaymentInfo(snapshot, sessionId, t).store,
                                p, sessionId, t)
    ELSE ResP(snapshot, p, TRUE, "")

\* --------------------------------------------------------------- inventory
\* decrementSlot(slot): throws on a slot outside 0-9, when the file cannot be
\* read or written (ioFails) and when the slot is empty; otherwise it writes
\* the inventory with one item less in the slot
decrementSlot(inv, slot, ioFails) ==
  IF slot \notin Slots THEN [inventory |-> inv, threw |-> TRUE]
  ELSE IF ioFails THEN [inventory |-> inv, threw |-> TRUE]
  ELSE IF inv[slot] <= 0 THEN [inventory |-> inv, threw |-> TRUE]
  ELSE [inventory |-> [inv EXCEPT ![slot] = inv[slot] - 1], threw |-> FALSE]

ResI(s, inv, ok, msg) == [store |-> s, inventory |-> inv, ok |-> ok, message |-> msg]

\* the dispense tool the chat relay offers to the assistant, for session
\* sessionId and the optional slot number (NoSlot when it is absent)
dispenseToolCancelsOnFailure(s, inv, sessionId, slot, ioFails, t) ==
  IF slot # NoSlot /\ (slot \notin DOMAIN inv \/ inv[slot] <= 0)
    THEN ResI(s, inv, FALSE, "OutOfStock")
  ELSE LET result == dispense(s, sessionId, t) IN
    IF ~result.ok THEN ResI(result.store, inv, FALSE, result.message)
    ELSE IF slot = NoSlot THEN ResI(result.store, inv, TRUE, "")
    ELSE LET d == decrementSlot(inv, slot, ioFails) IN
      IF d.threw
        THEN ResI(cancel(result.store, sessionId, t).store, inv, FALSE, "Failed")
        ELSE ResI(result.store, d.inventory, TRUE, "")

dispenseTool(s, inv, sessionId, slot, ioFails, t) ==
  IF slot # NoSlot /\ (slot \notin DOMAIN inv \/ inv[slot] <= 0)
    THEN ResI(s, inv, FALSE, "OutOfStock")
  ELSE LET result == dispense(s, sessionId, t) IN
    IF ~result.ok THEN ResI(result.store, inv, FALSE, result.message)
    ELSE IF slot = NoSlot THEN ResI(result.store, inv, TRUE, "")
    ELSE ResI(result.store, decrementSlot(inv, slot, ioFails).inventory, TRUE, "")

\* dispense's setTimeout callbacks
onDoneTimer(s, t) == [s EXCEPT !.state = "DONE", !.updatedAt = t]
onIdleTimer(s, t) == resetToIdle(s, t)

\* ------------------------------------------------------------- the callers
\* ids a caller can present: every id issued so far, and one never issued
KnownIds == 0 .. store.sessionId

\* payment records a caller can hand to setPaymentInfo
\* (the payment route stamps createdAt itself and leaves the deadline null;
\* another caller may try to grant itself a longer window)
SuppliedInfos ==
  {[preferenceId |-> "o1", qrCodeUrl |-> "qr", qrCodeDataUrl |-> "img",
    amount |-> 100, description |-> "item", createdAt |-> now,
    paymentExpiresAt |-> Null],
   [preferenceId |-> "o2", qrCodeUrl |-> "qr", qrCodeDataUrl |-> "img",
    amount |-> 100, description |-> "item", createdAt |-> Null,
    paymentExpiresAt |-> now + 2 * PAYMENT_TTL_MS]}

\* settlement notifications that can arrive: about orders that exist
Topics == {"order", "payment"}
Notifications == [topic : Topics, order : used]

\* slot numbers the assistant passes (the tool's schema admits 0-9): the
\* stocked slot and an empty one
ToolSlots == {0, 1}

\* clients call only while every deadline they can arm fits the clock
ClientWindow ==
  ~quiet /\ now + CHAT_TTL_MS <= MaxTime /\ now + PAYMENT_TTL_MS <= MaxTime

\* bookkeeping of every step: ids whose occupancy ended or that were replaced
Retire(s2) ==
  IF (store.state # "IDLE" /\ s2.state = "IDLE") \/ s2.sessionId # store.sessionId
    THEN retired \cup {store.sessionId}
    ELSE retired

\* a step of operation op that leaves the store s2 and the saved time p2
Apply(op, s2, p2) ==
  /\ store' = s2
  /\ pausedTimeRemaining' = p2
  /\ lastOp' = IF s2 # store \/ p2 # pausedTimeRemaining THEN op ELSE lastOp
  /\ retired' = Retire(s2)
  /\ ran' = IF store.state = "CHATTING" /\ s2.state = "CHATTING"
                /\ s2.sessionId = store.sessionId
             THEN ran ELSE 0

Init ==
  /\ store = [state |-> "IDLE", sessionId |-> 1, lockedByName |-> NullStr,
              updatedAt |-> 0, chatExpiresAt |-> Null, paymentInfo |-> NoPayment]
  /\ pausedTimeRemaining = Null
  /\ timers = <<>>
  /\ now = 0
  /\ lastOp = "init"
  /\ retired = {}
  /\ quiet = FALSE
  /\ ran = 0
  /\ used = {}
  /\ processed = {}
  /\ inventory = [slot \in Slots |-> IF slot = 0 THEN MaxStock ELSE 0]

Poll ==
  /\ Apply("expiry", getSnapshot(store, now), pausedTimeRemaining)
  /\ UNCHANGED <<timers, now, quiet, used, processed, inventory>>

CallClaim(sid, name) ==
  /\ ClientWindow
  /\ store.sessionId <= MaxSessions
  /\ LET r == claim(store, sid, name, now)
     IN Apply(IF r.ok THEN "claim" ELSE "expiry", r.store, pausedTimeRemaining)
  /\ UNCHANGED <<timers, now, quiet, used, processed, inventory>>

CallCancel(sid) ==
  /\ ClientWindow
  /\ LET r == cancel(store, sid, now)
     IN Apply(IF r.ok THEN "cancel" ELSE "expiry", r.store, pausedTimeRemaining)
  /\ UNCHANGED <<timers, now, quiet, used, processed, inventory>>

CallDispense(sid) ==
  /\ ClientWindow
  /\ LET r == dispense(store, sid, now) IN
       /\ Apply(IF r.ok THEN "dispense" ELSE "expiry", r.store, pausedTimeRemaining)
       /\ timers' = IF r.ok
                      THEN Append(timers, [kind |-> "toDone", due |-> now + DONE_DELAY_MS,
                                           sid |-> sid])
                      ELSE timers
  /\ UNCHANGED <<now, quiet, used, processed, inventory>>

\* the assistant calls the dispense tool of the chat relay; the inventory
\* file may fail to be read or written while the slot is decremented
DispenseTool(sid, slot, ioFails) ==
  /\ ClientWindow
  /\ LET r == dispenseTool(store, inventory, sid, slot, ioFails, now) IN
       /\ Apply(IF r.ok THEN "dispenseTool" ELSE "expiry", r.store,
                pausedTimeRemaining)
       /\ timers' = IF r.ok
                      THEN Append(timers, [kind |-> "toDone", due |-> now + DONE_DELAY_MS,
                                           sid |-> sid])
                      ELSE timers
       /\ inventory' = r.inventory
  /\ UNCHANGED <<now, quiet, used, processed>>

CallMarkDone(sid) ==
  /\ ClientWindow
  /\ LET r == markDone(store, sid, now)
     IN Apply(IF r.ok THEN "markDone" ELSE "expiry", r.store, pausedTimeRemaining)
  /\ UNCHANGED <<timers, now, quiet, used, processed, inventory>>

CallCanSendChat(sid) ==
  /\ ClientWindow
  /\ Apply("expiry", canSendChat(store, sid, now).store, pausedTimeRemaining)
  /\ UNCHANGED <<timers, now, quiet, used, processed, inventory>>

CallPauseChatTimer(sid) ==
  /\ ClientWindow
  /\ LET r == pauseChatTimer(store, pausedTimeRemaining, sid, now)
     IN Apply("pauseChatTimer", r.store, r.paused)
  /\ UNCHANGED <<timers, now, quiet, used, processed, inventory>>

CallResumeChatTimer(sid) ==
  /\ ClientWindow
  /\ LET r == resumeChatTimer(store, pausedTimeRemaining, sid, now)
     IN Apply("resumeChatTimer", r.store, r.paused)
  /\ UNCHANGED <<timers, now, quiet, used, processed, inventory>>

\* the payment route attaches the order it has just created (o1 is the
\* first order created, o2 the second)
CallSetPaymentInfo(sid, info) ==
  /\ ClientWindow
  /\ info.preferenceId \notin used
  /\ info.preferenceId = "o2" => "o1" \in used
  /\ LET r == setPaymentInfo(store, sid, info, now) IN
       /\ Apply("setPaymentInfo", r.store, pausedTimeRemaining)
       /\ used' = IF r.ok THEN used \cup {info.preferenceId} ELSE used
  /\ UNCHANGED <<timers, now, quiet, processed, inventory>>

CallClearPaymentInfo(sid) ==
  /\ ClientWindow
  /\ Apply("clearPaymentInfo", clearPaymentInfo(store, sid, now).store,
           pausedTimeRemaining)
  /\ UNCHANGED <<timers, now, quiet, used, processed, inventory>>

CallGetPaymentInfo(sid) ==
  /\ ClientWindow
  /\ Apply("getPaymentInfo", getPaymentInfo(store, sid).store, pausedTimeRemaining)
  /\ UNCHANGED <<timers, now, quiet, used, processed, inventory>>

CallTransitionToChatting(sid) ==
  /\ ClientWindow
  /\ LET r == transitionToChatting(store, pausedTimeRemaining, sid, now)
     IN Apply("transitionToChatting", r.store, r.paused)
  /\ UNCHANGED <<timers, now, quiet, used, processed, inventory>>

CallResumeChatTimerAfterPayment(sid) ==
  /\ ClientWindow
  /\ LET r == resumeChatTimerAfterPayment(store, pausedTimeRemaining, sid, now)
     IN Apply("resumeChatTimer", r.store, r.paused)
  /\ UNCHANGED <<timers, now, quiet, used, processed, inventory>>

\* the payment provider delivers notification n (possibly once more)
Webhook(n) ==
  /\ ClientWindow
  /\ LET r == webhook(store, pausedTimeRemaining, n, now)
         clears == r.store.state = "CHATTING" /\ r.store.paymentInfo # store.paymentInfo
     IN /\ Apply(IF clears THEN "webhook" ELSE "expiry", r.store, r.paused)
        /\ processed' = IF clears /\ n.order = store.paymentInfo.preferenceId
                           THEN processed \cup {n.order} ELSE processed
  /\ UNCHANGED <<timers, now, quiet, used, inventory>>

\* the polling fallback started for session sid sees a terminal status
PaymentPolling(sid) ==
  /\ ClientWindow
  /\ used # {}
  /\ LET r == pollOrderStatus(store, pausedTimeRemaining, sid, now)
     IN Apply(IF r.store.paymentInfo # store.paymentInfo /\ r.store.state = "CHATTING"
                THEN "polling" ELSE "expiry",
              r.store, r.paused)
  /\ UNCHANGED <<timers, now, quiet, used, processed, inventory>>

\* --------------------------------------------- deferred callbacks and clock
\* the callback the event loop runs next: the earliest due, and among equal
\* due times the earliest created
FirstDue(i) ==
  /\ timers[i].due <= now
  /\ \A j \in 1 .. Len(timers) :
       \/ timers[j].due > timers[i].due
       \/ (timers[j].due = timers[i].due /\ j >= i)

Remove(q, i) == SubSeq(q, 1, i - 1) \o SubSeq(q, i + 1, Len(q))

\* the outer callback: state = "DONE"; touch(); schedule the reset
AutoDone(i) ==
  /\ timers[i].kind = "toDone"
  /\ FirstDue(i)
  /\ Apply("autoDone", onDoneTimer(store, now), pausedTimeRemaining)
  /\ timers' = Append(Remove(timers, i),
                      [kind |-> "toIdle", due |-> now + IDLE_DELAY_MS,
                       sid |-> timers[i].sid])
  /\ UNCHANGED <<now, quiet, used, processed, inventory>>

\* the inner callback: resetToIdle()
AutoIdle(i) ==
  /\ timers[i].kind = "toIdle"
  /\ FirstDue(i)
  /\ Apply("autoIdle", onIdleTimer(store, now), pausedTimeRemaining)
  /\ timers' = Remove(timers, i)
  /\ UNCHANGED <<now, quiet, used, processed, inventory>>

\* the clock advances to the next multiple of TickMs, or to the next due
\* callback if that is sooner; a due callback runs before the clock moves on
NextTimes ==
  LET dues == {timers[i].due : i \in 1 .. Len(timers)}
      cand == {((now \div TickMs) + 1) * TickMs} \cup {d \in dues : d > now}
  IN {t \in cand : t <= MaxTime /\ \A d \in dues : d >= t}

Tick ==
  /\ \E t \in NextTimes : now' = t
  /\ ran' = IF store.state = "CHATTING" /\ store.chatExpiresAt # Null
                /\ store.chatExpiresAt > now
             THEN ran + (IF now' < store.chatExpiresAt THEN now'
                         ELSE store.chatExpiresAt) - now
             ELSE ran
  /\ UNCHANGED <<store, pausedTimeRemaining, timers, lastOp, retired, quiet,
                 used, processed, inventory>>

\* clients stop calling; from here on only polls, the clock and callbacks
GoQuiet ==
  /\ ~quiet
  /\ quiet' = TRUE
  /\ UNCHANGED <<store, pausedTimeRemaining, timers, now, lastOp, retired,
                 ran, used, processed, inventory>>

Next ==
  \/ Poll
  \/ \E sid \in KnownIds, n \in Names : CallClaim(sid, n)
  \/ \E sid \in KnownIds : CallCancel(sid)
  \/ \E sid \in KnownIds : CallDispense(sid)
  \/ \E sid \in KnownIds : CallMarkDone(sid)
  \/ \E sid \in KnownIds : CallCanSendChat(sid)
  \/ \E sid \in KnownIds : CallPauseChatTimer(sid)
  \/ \E sid \in KnownIds : CallResumeChatTimer(sid)
  \/ \E sid \in KnownIds, info \in SuppliedInfos : CallSetPaymentInfo(sid, info)
  \/ \E sid \in KnownIds : CallClearPaymentInfo(sid)
  \/ \E sid \in KnownIds : CallGetPaymentInfo(sid)
  \/ \E sid \in KnownIds : CallTransitionToChatting(sid)
  \/ \E sid \in KnownIds : CallResumeChatTimerAfterPayment(sid)
  \/ \E n \in Notifications : Webhook(n)
  \/ \E sid \in KnownIds : PaymentPolling(sid)
  \/ \E i \in 1 .. Len(timers) : AutoDone(i)
  \/ \E i \in 1 .. Len(timers) : AutoIdle(i)
  \/ Tick

Spec == Init /\ [][Next]_vars

\* the same machine when clients may fall silent; polls, the clock and due
\* callbacks keep running (the UI polls on a fixed interval, the event loop
\* runs every due callback)
LiveNext == Next \/ GoQuiet

LiveSpec ==
  /\ Init
  /\ [][LiveNext]_vars
  /\ WF_vars(Tick)
  /\ WF_vars(Poll)
  /\ WF_vars(\E i \in 1 .. Len(timers) : AutoDone(i))
  /\ WF_vars(\E i \in 1 .. Len(timers) : AutoIdle(i))

\* the chat relay and the inventory: occupants claim and cancel, the relay
\* checks a session before each turn and the assistant calls its dispense and
\* markDispensingComplete tools
ToolNext ==
  \/ Poll
  \/ \E sid \in KnownIds, n \in Names : CallClaim(sid, n)
  \/ \E sid \in KnownIds : CallCancel(sid)
  \/ \E sid \in KnownIds : CallCanSendChat(sid)
  \/ \E sid \in KnownIds, slot \in ToolSlots, ioFails \in BOOLEAN :
       DispenseTool(sid, slot, ioFails)
  \/ \E sid \in KnownIds : CallMarkDone(sid)
  \/ \E i \in 1 .. Len(timers) : AutoDone(i)
  \/ \E i \in 1 .. Len(timers) : AutoIdle(i)
  \/ Tick

ToolSpec == Init /\ [][ToolNext]_vars

\* ================================================================ claims
Expired == expireIfNeeded(store, now)

\* C1: in every reachable state, a claim call succeeds only if, after expiry
\* evaluation, the store is IDLE and the presented id is the current one; the
\* successful call leaves state CHATTING, lockedByName the caller's name and
\* the chat deadline at now + CHAT_TTL_MS.  So no claim succeeds while the
\* machine is occupied.
C1_ClaimExclusive ==
  \A sid \in KnownIds, n \in Names :
    LET r == claim(store, sid, n, now) IN
      r.ok => /\ Expired.state = "IDLE"
              /\ sid = Expired.sessionId
              /\ r.store.state = "CHATTING"
              /\ r.store.sessionId = sid
              /\ r.store.lockedByName = n
              /\ r.store.chatExpiresAt = now + CHAT_TTL_MS

\* a second occupant has just claimed the machine
C1_Witness ==
  lastOp = "claim" /\ store.state = "CHATTING" /\ store.sessionId > 1
  /\ store.lockedByName = "Bob" /\ store.chatExpiresAt = now + CHAT_TTL_MS

\* C2: every change of store.state follows an edge of the transition table.
TableEdges ==
  {<<"IDLE", "CHATTING">>, <<"CHATTING", "DISPENSING">>, <<"DISPENSING", "DONE">>,
   <<"DONE", "IDLE">>, <<"PAYMENT_PENDING", "CHATTING">>}
    \cup {<<s, "IDLE">> : s \in States \ {"IDLE"}}

C2_OnlyTableEdges ==
  [][store'.state # store.state => <<store.state, store'.state>> \in TableEdges]_vars

\* C3 as stated: every operation called with an id other than the store's
\* current one returns WrongSession and leaves the store as it was.
C3_WrongSessionUnchanged ==
  \A sid \in KnownIds : sid # store.sessionId =>
    /\ \A n \in Names : claim(store, sid, n, now) = Res(store, FALSE, "WrongSession")
    /\ cancel(store, sid, now) = Res(store, FALSE, "WrongSession")
    /\ dispense(store, sid, now) = Res(store, FALSE, "WrongSession")
    /\ markDone(store, sid, now) = Res(store, FALSE, "WrongSession")
    /\ canSendChat(store, sid, now) = Res(store, FALSE, "WrongSession")
    /\ pauseChatTimer(store, pausedTimeRemaining, sid, now)
         = ResP(store, pausedTimeRemaining, FALSE, "WrongSession")
    /\ resumeChatTimer(store, pausedTimeRemaining, sid, now)
         = ResP(store, pausedTimeRemaining, FALSE, "WrongSession")
    /\ \A info \in SuppliedInfos :
         setPaymentInfo(store, sid, info, now) = Res(store, FALSE, "WrongSession")
    /\ clearPaymentInfo(store, sid, now) = Res(store, FALSE, "WrongSession")
    /\ getPaymentInfo(store, sid) = Res(store, FALSE, "WrongSession")
    /\ transitionToChatting(store, pausedTimeRemaining, sid, now)
         = ResP(store, pausedTimeRemaining, FALSE, "WrongSession")

\* C3 amended: the operations that evaluate expiry compare the id with the
\* store as expiry evaluation leaves it, and leave exactly that store; claim
\* fails with Busy or InvalidSession; the others return WrongSession; the
\* operations that do not evaluate expiry leave the store as it was.
C3_WrongSessionFrame ==
  /\ \A sid \in KnownIds : sid # Expired.sessionId =>
       /\ \A n \in Names :
            LET r == claim(store, sid, n, now) IN
              /\ ~r.ok /\ r.store = Expired
              /\ r.message = IF Expired.state = "IDLE" THEN "InvalidSession" ELSE "Busy"
       /\ cancel(store, sid, now) = Res(Expired, FALSE, "WrongSession")
       /\ dispense(store, sid, now) = Res(Expired, FALSE, "WrongSession")
       /\ markDone(store, sid, now) = Res(Expired, FALSE, "WrongSession")
       /\ canSendChat(store, sid, now) = Res(Expired, FALSE, "WrongSession")
  /\ \A sid \in KnownIds : sid # store.sessionId =>
       /\ pauseChatTimer(store, pausedTimeRemaining, sid, now)
            = ResP(store, pausedTimeRemaining, FALSE, "WrongSession")
       /\ resumeChatTimer(store, pausedTimeRemaining, sid, now)
            = ResP(store, pausedTimeRemaining, FALSE, "WrongSession")
       /\ \A info \in SuppliedInfos :
            setPaymentInfo(store, sid, info, now) = Res(store, FALSE, "WrongSession")
       /\ clearPaymentInfo(store, sid, now) = Res(store, FALSE, "WrongSession")
       /\ getPaymentInfo(store, sid) = Res(store, FALSE, "WrongSession")
       /\ transitionToChatting(store, pausedTimeRemaining, sid, now)
            = ResP(store, pausedTimeRemaining, FALSE, "WrongSession")
       /\ resumeChatTimerAfterPayment(store, pausedTimeRemaining, sid, now)
            = ResP(store, pausedTimeRemaining, FALSE, "WrongSession")

\* an occupied store with payment attached whose chat deadline has passed
\* unobserved, while stale ids are in circulation: a wrong-id call here both
\* triggers the expiry reset and is rejected
C3_Witness ==
  /\ store.state = "CHATTING" /\ Expired # store
  /\ store.paymentInfo # NoPayment /\ retired # {}

\* C4: a dispense callback that fires after its session was cancelled or
\* reset, or after the state moved on, changes nothing in the store.
C4_StaleCallbackNoOp ==
  [][\A i \in 1 .. Len(timers) :
       \/ /\ AutoDone(i)
          /\ (timers[i].sid # store.sessionId \/ store.state # "DISPENSING")
       \/ /\ AutoIdle(i)
          /\ (timers[i].sid # store.sessionId \/ store.state # "DONE")
       => store' = store]_vars

\* C5: once clients are silent (polls, clock and callbacks only), the store
\* eventually reaches IDLE.
C5_EventuallyIdle == [](quiet => <>(store.state = "IDLE"))

\* C6: CHATTING and PAYMENT_PENDING always carry a live chat or payment
\* deadline, and DISPENSING always has its auto-advance pending.
C6_LiveDeadline ==
  /\ store.state \in {"CHATTING", "PAYMENT_PENDING"}
       => (store.chatExpiresAt # Null \/ store.paymentInfo.paymentExpiresAt # Null)
  /\ store.state = "DISPENSING"
       => \E i \in 1 .. Len(timers) : timers[i].kind = "toDone"

\* C7: sessionId changes in a step exactly when the step takes the store
\* from a non-IDLE state to IDLE.
C7_IdChangesIffReturnToIdle ==
  [][(store'.sessionId # store.sessionId)
       <=> (store.state # "IDLE" /\ store'.state = "IDLE")]_vars

\* C8: no operation presented with an id that was replaced (or whose
\* occupancy ended) succeeds.
C8_RetiredIdNeverSucceeds ==
  \A sid \in retired :
    /\ \A n \in Names : ~claim(store, sid, n, now).ok
    /\ ~cancel(store, sid, now).ok
    /\ ~dispense(store, sid, now).ok
    /\ ~markDone(store, sid, now).ok
    /\ ~canSendChat(store, sid, now).ok
    /\ ~pauseChatTimer(store, pausedTimeRemaining, sid, now).ok
    /\ ~resumeChatTimer(store, pausedTimeRemaining, sid, now).ok
    /\ \A info \in SuppliedInfos : ~setPaymentInfo(store, sid, info, now).ok
    /\ ~clearPaymentInfo(store, sid, now).ok
    /\ ~getPaymentInfo(store, sid).ok
    /\ ~transitionToChatting(store, pausedTimeRemaining, sid, now).ok
    /\ ~resumeChatTimerAfterPayment(store, pausedTimeRemaining, sid, now).ok

\* claim(1) then cancel(1) have happened: the machine is free again and id 1
\* is the old id
C8_Witness ==
  lastOp = "cancel" /\ store.state = "IDLE" /\ 1 \in retired

\* C9: paymentInfo is all null whenever state is IDLE, DISPENSING or DONE.
C9_PaymentOnlyWhileChatting ==
  store.state \in {"IDLE", "DISPENSING", "DONE"} => store.paymentInfo = NoPayment

\* C10: cancel with the matching id from a non-IDLE state leaves IDLE, a
\* fresh id, and lockedByName, chatExpiresAt, paymentInfo and the saved
\* paused remaining time all cleared.
C10_CancelClearsAll ==
  [][\A sid \in KnownIds :
       (CallCancel(sid) /\ sid = Expired.sessionId /\ Expired.state # "IDLE")
         => /\ store'.state = "IDLE"
            /\ store'.sessionId \notin retired \cup {store.sessionId}
            /\ store'.lockedByName = NullStr
            /\ store'.chatExpiresAt = Null
            /\ store'.paymentInfo = NoPayment
            /\ pausedTimeRemaining' = Null]_vars

\* C11: cancel on a store that is already IDLE returns ok and leaves the
\* store (sessionId included) unchanged whatever id is presented; an id
\* mismatch fails with WrongSession only when the store is not IDLE.
C11_CancelIdleNoOp ==
  \A sid \in KnownIds :
    /\ store.state = "IDLE" => cancel(store, sid, now) = Res(store, TRUE, "")
    /\ (Expired.state # "IDLE" /\ sid # Expired.sessionId)
         => cancel(store, sid, now) = Res(Expired, FALSE, "WrongSession")

\* C12: when the chat deadline of a CHATTING session has been crossed, the
\* next getSnapshot shows IDLE, an id that is neither the expired session's
\* nor any earlier one, lockedByName null and chatExpiresAt null.
C12_ChatExpiryObserved ==
  (store.state = "CHATTING" /\ store.chatExpiresAt # Null
     /\ now >= store.chatExpiresAt)
    => LET g == getSnapshot(store, now) IN
         /\ g.state = "IDLE"
         /\ g.sessionId \notin retired \cup {store.sessionId}
         /\ g.lockedByName = NullStr
         /\ g.chatExpiresAt = Null

\* the claim was the last call and the chat deadline is exactly reached
C12_Witness ==
  /\ lastOp = "claim" /\ store.state = "CHATTING"
  /\ store.chatExpiresAt = now /\ store.paymentInfo = NoPayment

\* C13: when the payment deadline of a CHATTING session with payment info
\* attached has elapsed, the next getSnapshot shows IDLE, a fresh id and
\* every paymentInfo field null.
C13_PaymentExpiryObserved ==
  (store.state = "CHATTING" /\ store.paymentInfo.paymentExpiresAt # Null
     /\ now >= store.paymentInfo.paymentExpiresAt)
    => LET g == getSnapshot(store, now) IN
         /\ g.state = "IDLE"
         /\ g.sessionId \notin retired \cup {store.sessionId}
         /\ g.paymentInfo = NoPayment

\* payment info was attached while the chat timer is paused, and only the
\* payment deadline has run out
C13_Witness ==
  /\ store.state = "CHATTING" /\ store.chatExpiresAt = Null
  /\ store.paymentInfo.preferenceId # NullStr
  /\ store.paymentInfo.paymentExpiresAt = now

\* C14: no operation succeeds against a session whose live chat or payment
\* deadline has already passed.
C14_ExpiryBeforeEveryOp ==
  Expired # store =>
    \A sid \in KnownIds :
      /\ \A n \in Names : ~claim(store, sid, n, now).ok
      /\ ~cancel(store, sid, now).ok
      /\ ~dispense(store, sid, now).ok
      /\ ~markDone(store, sid, now).ok
      /\ ~canSendChat(store, sid, now).ok
      /\ ~pauseChatTimer(store, pausedTimeRemaining, sid, now).ok
      /\ ~resumeChatTimer(store, pausedTimeRemaining, sid, now).ok
      /\ \A info \in SuppliedInfos : ~setPaymentInfo(store, sid, info, now).ok
      /\ ~clearPaymentInfo(store, sid, now).ok
      /\ ~getPaymentInfo(store, sid).ok
      /\ ~transitionToChatting(store, pausedTimeRemaining, sid, now).ok
      /\ ~resumeChatTimerAfterPayment(store, pausedTimeRemaining, sid, now).ok

\* C15: in every snapshot getSnapshot returns, a non-null chatExpiresAt and a
\* non-null paymentInfo.paymentExpiresAt are strictly later than the time of
\* the call, whatever the state.
C15_NoStaleSnapshot ==
  LET g == getSnapshot(store, now) IN
    /\ g.chatExpiresAt # Null => g.chatExpiresAt > now
    /\ g.paymentInfo.paymentExpiresAt # Null => g.paymentInfo.paymentExpiresAt > now

\* C16: dispense succeeds exactly when the presented id is the current one
\* and, after expiry evaluation, the state is CHATTING; it then sets state
\* DISPENSING and changes nothing else but updatedAt.  With another id it
\* returns WrongSession, with the current id in another state InvalidState,
\* and in both cases it leaves the store as expiry evaluation left it.
C16_DispenseGuards ==
  \A sid \in KnownIds \cup {Expired.sessionId} :
    LET r == dispense(store, sid, now) IN
      /\ r.ok <=> (sid = Expired.sessionId /\ Expired.state = "CHATTING")
      /\ r.ok => r.store = [Expired EXCEPT !.state = "DISPENSING", !.updatedAt = now]
      /\ sid # Expired.sessionId => r = Res(Expired, FALSE, "WrongSession")
      /\ (sid = Expired.sessionId /\ Expired.state # "CHATTING")
           => r = Res(Expired, FALSE, "InvalidState")

\* a dispense has just succeeded for a second occupant
C16_Witness ==
  lastOp = "dispense" /\ store.state = "DISPENSING" /\ store.sessionId > 1

\* C18: a successful pauseChatTimer on a running chat timer nulls
\* chatExpiresAt and saves deadline - now; resumeChatTimer sets chatExpiresAt
\* = now + saved; so a pause immediately followed by a resume restores the
\* store as it was.
C18_PauseResumeRoundTrip ==
  (store.state = "CHATTING" /\ store.chatExpiresAt # Null) =>
    LET p == pauseChatTimer(store, pausedTimeRemaining, store.sessionId, now)
        r == resumeChatTimer(p.store, p.paused, store.sessionId, now)
    IN p.ok => /\ p.store = [store EXCEPT !.chatExpiresAt = Null]
               /\ p.paused = store.chatExpiresAt - now
               /\ r.ok /\ r.store = store /\ r.paused = Null

\* C19: while a pause is outstanding (CHATTING with the deadline nulled),
\* another pauseChatTimer changes neither the store nor the saved remaining
\* time, and the resume that follows sets chatExpiresAt to the resume time
\* plus the saved remaining time.
C19_SecondPauseKeepsSaved ==
  (store.state = "CHATTING" /\ store.chatExpiresAt = Null) =>
    LET p == pauseChatTimer(store, pausedTimeRemaining, store.sessionId, now)
        r == resumeChatTimer(p.store, p.paused, store.sessionId, now)
    IN /\ pausedTimeRemaining # Null
       /\ p = ResP(store, pausedTimeRemaining, TRUE, "")
       /\ r = ResP([store EXCEPT !.chatExpiresAt = now + pausedTimeRemaining],
                   Null, TRUE, "")

\* a pause captured a nonzero remaining time and time has passed since: the
\* deadline a resume would arm is later than the one the claim armed
C19_Witness ==
  /\ store.state = "CHATTING" /\ store.chatExpiresAt = Null
  /\ lastOp = "pauseChatTimer" /\ store.paymentInfo = NoPayment
  /\ pausedTimeRemaining > 0
  /\ now + pausedTimeRemaining > store.updatedAt + CHAT_TTL_MS

\* C20: with no pause outstanding (CHATTING with a running deadline),
\* resumeChatTimer leaves the store, chatExpiresAt included, as it was.
C20_ResumeWithoutPauseNoOp ==
  (store.state = "CHATTING" /\ store.chatExpiresAt # Null) =>
    LET r == resumeChatTimer(store, pausedTimeRemaining, store.sessionId, now)
    IN r.ok /\ r.store = store

\* C17: once a dispense has succeeded and clients make no further calls, the
\* next change of the store is DISPENSING -> DONE for the same session, one
\* grace period (DONE_DELAY_MS) after the dispense; the change after that is
\* DONE -> IDLE, a further grace period (IDLE_DELAY_MS) later, with an id
\* never used before and lockedByName, chatExpiresAt and paymentInfo
\* cleared; and IDLE is eventually reached.
C17_AutoAdvance ==
  /\ [][(quiet /\ lastOp = "dispense" /\ store' # store)
          => /\ store' = [store EXCEPT !.state = "DONE", !.updatedAt = now]
             /\ now = store.updatedAt + DONE_DELAY_MS]_vars
  /\ [][(quiet /\ lastOp = "autoDone" /\ store' # store)
          => /\ store'.state = "IDLE"
             /\ store'.sessionId \notin retired \cup {store.sessionId}
             /\ store'.lockedByName = NullStr
             /\ store'.chatExpiresAt = Null
             /\ store'.paymentInfo = NoPayment
             /\ now = store.updatedAt + IDLE_DELAY_MS]_vars
  /\ [](quiet /\ lastOp = "dispense" => <>(store.state = "IDLE"))

\* C21: while the store is CHATTING, exactly one of chatExpiresAt and the
\* saved paused remaining time is non-null.
C21_ExactlyOneTimerValue ==
  store.state = "CHATTING"
    => ((store.chatExpiresAt # Null) <=> (pausedTimeRemaining = Null))

\* the chat budget the current occupancy still has
Remaining ==
  IF store.chatExpiresAt # Null
    THEN (IF store.chatExpiresAt > now THEN store.chatExpiresAt - now ELSE 0)
  ELSE IF pausedTimeRemaining # Null THEN pausedTimeRemaining
  ELSE 0

\* C22: within one occupancy the time spent CHATTING with a running chat
\* deadline never exceeds CHAT_TTL_MS, and pausing costs nothing: the time
\* already run plus the budget still left is always CHAT_TTL_MS.
C22_BudgetPreserved ==
  /\ ran <= CHAT_TTL_MS
  /\ store.state = "CHATTING" => ran + Remaining = CHAT_TTL_MS

C24_ChatPausedWhilePaying ==
  (store.state = "CHATTING" /\ store.paymentInfo.preferenceId # NullStr)
    => store.chatExpiresAt = Null

\* C25: when a settlement notification (either topic) arrives for the order
\* attached to the session that is CHATTING after expiry evaluation, the
\* payment info is cleared, state, sessionId and lockedByName stay as they
\* were, and a paused chat timer is re-armed at now + the saved remaining
\* time.
C25_SettlementResumesChat ==
  (Expired.state = "CHATTING" /\ Expired.paymentInfo.preferenceId # NullStr) =>
    \A topic \in Topics :
      LET r == webhook(store, pausedTimeRemaining,
                       [topic |-> topic, order |-> store.paymentInfo.preferenceId],
                       now)
      IN /\ r.store.paymentInfo = NoPayment
         /\ r.store.state = "CHATTING"
         /\ r.store.sessionId = store.sessionId
         /\ r.store.lockedByName = store.lockedByName
         /\ store.chatExpiresAt = Null
              => /\ r.store.chatExpiresAt = now + pausedTimeRemaining
                 /\ r.paused = Null

\* in the first session the timer was paused with the full budget, payment
\* was attached, and the webhook settled it some time later
C25_Witness ==
  /\ lastOp = "webhook" /\ store.state = "CHATTING" /\ store.sessionId = 1
  /\ store.paymentInfo = NoPayment /\ processed # {}
  /\ now > 0 /\ ran = 0 /\ store.chatExpiresAt = now + CHAT_TTL_MS

\* C26: delivering once more a notification that the webhook has already
\* settled leaves the store and the saved paused time as they are (expiry
\* evaluation aside), whatever happened since.
C26_ReplayIsNoOp ==
  \A o \in processed, topic \in Topics :
    webhook(store, pausedTimeRemaining, [topic |-> topic, order |-> o], now)
      = ResP(Expired, pausedTimeRemaining, TRUE, "")

\* C27: when the polling fallback sees a terminal order status while the
\* session that started the payment is current, CHATTING and has payment
\* info attached, it clears the payment info and leaves the state CHATTING.
C27_PollingSettles ==
  (Expired.state = "CHATTING" /\ Expired.paymentInfo.preferenceId # NullStr) =>
    LET r == pollOrderStatus(store, pausedTimeRemaining, store.sessionId, now)
    IN r.store.paymentInfo = NoPayment /\ r.store.state = "CHATTING"

\* C28: clearPaymentInfo with the current id succeeds in every state, nulls
\* every paymentInfo field, leaves every other field but updatedAt as it
\* was, and applied twice gives the same store as applied once.
C28_ClearPaymentFrame ==
  LET r == clearPaymentInfo(store, store.sessionId, now) IN
    /\ r.ok
    /\ r.store = [store EXCEPT !.paymentInfo = NoPayment, !.updatedAt = now]
    /\ clearPaymentInfo(r.store, store.sessionId, now) = r

\* payment info left on a session that has moved on to DISPENSING has just
\* been cleared there
C28_Witness ==
  /\ lastOp = "clearPaymentInfo" /\ store.state = "DISPENSING"
  /\ store.paymentInfo = NoPayment /\ store.chatExpiresAt # Null

\* C29: claim returns Busy whenever the store, after expiry evaluation, is
\* not IDLE, whatever id is presented, and InvalidSession when it is IDLE
\* and the id is not the current one; in both cases it leaves the store as
\* expiry evaluation left it.
C29_ClaimErrors ==
  \A sid \in KnownIds \cup {Expired.sessionId}, n \in Names :
    LET r == claim(store, sid, n, now) IN
      /\ Expired.state # "IDLE" => r = Res(Expired, FALSE, "Busy")
      /\ (Expired.state = "IDLE" /\ sid # Expired.sessionId)
           => r = Res(Expired, FALSE, "InvalidSession")

\* the machine is busy with its second occupant, stale ids in circulation
C29_Witness ==
  /\ store.state = "CHATTING" /\ Expired = store
  /\ store.sessionId > 1 /\ retired # {}

\* C30: an operation that its state guard rejects leaves the store and the
\* saved paused remaining time as they were.
C30_RejectedNoSideEffect ==
  \A sid \in KnownIds :
    /\ \A r \in {dispense(store, sid, now), markDone(store, sid, now)} :
         r.message = "InvalidState" => r.store = store
    /\ \A info \in SuppliedInfos :
         LET r == setPaymentInfo(store, sid, info, now) IN
           r.message = "InvalidState" => r.store = store
    /\ \A r \in {pauseChatTimer(store, pausedTimeRemaining, sid, now),
                 resumeChatTimer(store, pausedTimeRemaining, sid, now),
                 transitionToChatting(store, pausedTimeRemaining, sid, now)} :
         r.message = "InvalidState"
           => r.store = store /\ r.paused = pausedTimeRemaining

\* the chat route's pause, dispense sequence has run: the resume that
\* follows is rejected by the state guard
C30_Witness ==
  /\ lastOp = "dispense" /\ store.state = "DISPENSING"
  /\ pausedTimeRemaining # Null /\ store.chatExpiresAt = Null

\* C31: canSendChat returns ok exactly when, after expiry evaluation, the
\* presented id is the current one and the state is CHATTING with a deadline
\* that has not elapsed; a successful check leaves the store, and so the chat
\* deadline, as it was, and a failed one leaves what expiry evaluation left.
C31_CanSendChatGuards ==
  \A sid \in KnownIds \cup {Expired.sessionId} :
    LET r == canSendChat(store, sid, now) IN
      /\ r.ok <=> (sid = Expired.sessionId /\ Expired.state = "CHATTING")
      /\ r.ok => /\ r.store = store
                 /\ store.chatExpiresAt # Null => store.chatExpiresAt > now
      /\ ~r.ok => r.store = Expired

\* the occupant is half way through the chat window and may still chat
C31_Witness ==
  /\ store.state = "CHATTING" /\ lastOp = "claim"
  /\ now > store.updatedAt /\ store.chatExpiresAt > now
  /\ canSendChat(store, store.sessionId, now).ok

C33_NameIffOccupied ==
  (store.state = "IDLE") <=> (store.lockedByName = NullStr)

\* C34: once the session has changed, a setPaymentInfo call that presents an
\* id issued earlier (the payment route finishing a request it started for
\* that session) fails with WrongSession and leaves the store as it was.
C34_LatePaymentRejected ==
  \A sid \in KnownIds : sid # store.sessionId =>
    \A info \in SuppliedInfos :
      LET r == setPaymentInfo(store, sid, info, now) IN
        /\ r = Res(store, FALSE, "WrongSession")
        /\ r.store.paymentInfo = store.paymentInfo

\* the first session ended and a new occupant is chatting, no payment
\* attached: a payment request of the first session may still be in flight
C34_Witness ==
  /\ store.state = "CHATTING" /\ lastOp = "claim" /\ store.sessionId = 2
  /\ 1 \in retired /\ store.paymentInfo = NoPayment /\ used = {}
  /\ \E info \in SuppliedInfos : setPaymentInfo(store, 2, info, now).ok

\* C35: a settlement notification about an order other than the one attached
\* to the current session changes nothing (beyond what expiry evaluation
\* does), whatever its topic.
C35_OtherOrderIgnored ==
  \A n \in [topic : Topics, order : Orders] :
    n.order # Expired.paymentInfo.preferenceId =>
      webhook(store, pausedTimeRemaining, n, now)
        = ResP(Expired, pausedTimeRemaining, TRUE, "")

\* C36: dispense does not succeed while payment info is attached.
C36_NoDispenseWhilePaying ==
  Expired.paymentInfo.preferenceId # NullStr =>
    \A sid \in KnownIds : ~dispense(store, sid, now).ok

C39_DecrementFailureNotFedBack ==
  \A sid \in KnownIds, slot \in ToolSlots \cup {NoSlot} :
    LET failing == dispenseTool(store, inventory, sid, slot, TRUE, now)
        working == dispenseTool(store, inventory, sid, slot, FALSE, now)
        outOfStock == slot # NoSlot /\ (slot \notin Slots \/ inventory[slot] <= 0)
    IN /\ failing.store = working.store /\ failing.ok = working.ok
       /\ outOfStock => failing = ResI(store, inventory, FALSE, "OutOfStock")
       /\ ~outOfStock => /\ failing.store = dispense(store, sid, now).store
                         /\ failing.ok = dispense(store, sid, now).ok
                         /\ failing.inventory = inventory

\* the tool has dispensed from the stocked slot and the decrement failed: the
\* session is DISPENSING with its callback pending, the stock is untouched
C39_Witness ==
  /\ lastOp = "dispenseTool" /\ store.state = "DISPENSING"
  /\ inventory[0] = MaxStock
  /\ \E i \in 1 .. Len(timers) :
       timers[i].sid = store.sessionId /\ timers[i].kind = "toDone"
====
